---------------------------- MODULE Spec2Model ----------------------------
(* Model of shortfin_apps/sd/components/generate.py:                        *)
(*   GenerateImageProcess        one item task of a batch (lines 45-76)     *)
(*   HTTP*Field                  the structured-field serializer (115-168)  *)
(*   ClientGenerateBatchProcess  the batch orchestrator (lines 171-276)     *)
(* The orchestrator and its item tasks share one fiber (line 61), so they   *)
(* interleave only where one of them awaits: an item task at `await         *)
(* exec.done` (line 70), the orchestrator at `await asyncio.gather` (214).  *)
EXTENDS Integers, Sequences, FiniteSets, TLC

(***************************************************************************)
(* Bounds of the model.                                                    *)
(***************************************************************************)
MaxN == 3          \* largest gen_req.num_output_images
MaxImage == 2      \* distinct images the batcher can produce
MaxClock == 2      \* latest wall-clock reading, in milliseconds
MaxHalves == 3     \* largest Decimal drawn for the serializer, in halves
MaxCalls == 3      \* calls made on a responder driven directly

VARIABLES
    num_output_images, \* gen_req.num_output_images
    pc,                \* position of ClientGenerateBatchProcess.run
    gen_processes,     \* the list built by the launch loop (item indices)
    proc,              \* per index: the GenerateImageProcess (state, output)
    exec,              \* per index: the SDXLInferenceExecRequest of the item
    png_images,        \* the list built by the assembly loop
    responder,         \* the response sink: responded flag, what it received
    calls,             \* the calls made on the responder, in order
    exc,               \* the exception run is unwinding with, or NoExc
    raised,            \* the exception that left run, once run is over
    now,               \* wall clock, milliseconds
    t0,                \* prompt_to_png_batch_interval_start
    t1,                \* prompt_to_png_batch_interval_end
    header,            \* value computed for the Server-Timing header
    joined,            \* whether the gather of line 214 has resolved
    sf_in,             \* serializer driven directly: the value asked for
    sf_out             \* serializer driven directly: what the code yields

vars == <<num_output_images, pc, gen_processes, proc, exec, png_images,
          responder, calls, exc, raised, now, t0, t1, header, joined,
          sf_in, sf_out>>

ovars == <<num_output_images, pc, gen_processes, proc, exec, png_images,
           exc, raised, now, t0, t1, header, joined>>

\* Python's None for an optional value; Some(x) is a present value x
None == <<>>

Some(x) == <<x>>

NoExc == [kind |-> "none", index |-> 0]

\* a local of run that is not assigned yet
Unset == -1

Indices == 0 .. (MaxN - 1)

Images == 1 .. MaxImage

(***************************************************************************)
(* Structured-field serializer (lines 115-168).                           *)
(* A Python expression evaluates to a field value or raises; a raised      *)
(* exception is the value Raised(kind) and aborts every enclosing          *)
(* expression.                                                             *)
(***************************************************************************)
Raised(kind) == [t |-> "raised", v |-> kind]

IsRaised(x) == x.t = "raised"

\* float rendering f"{self}" of a value given in halves: 0 -> 0.0, 25 -> 12.5
DecimalText(h) == ToString(h \div 2) \o "." \o (IF h % 2 = 0 THEN "0" ELSE "5")

HTTPDecimalField(h) == [t |-> "decimal", v |-> h]

HTTPStringField(s) == [t |-> "string", v |-> s]

\* The class statement `class HTTPBooleanField(HTTPStructuredField, bool)`:
\* bool is not an acceptable base type, so the statement raises TypeError
\* and leaves no class; every expression that needs the class raises.
HTTPBooleanFieldClass == Raised("TypeError")

HTTPBooleanField(b) ==
    IF IsRaised(HTTPBooleanFieldClass) THEN HTTPBooleanFieldClass
    ELSE [t |-> "boolean", v |-> b]

AnyRaised(items) == \E k \in 1 .. Len(items) : IsRaised(items[k])

FirstRaised(items) ==
    items[CHOOSE k \in 1 .. Len(items) :
            /\ IsRaised(items[k])
            /\ \A j \in 1 .. (k - 1) : ~IsRaised(items[j])]

HTTPListField(items) ==
    IF AnyRaised(items) THEN FirstRaised(items)
    ELSE [t |-> "list", v |-> items]

\* entries: the keyword arguments in order, each <<key, value>>
HTTPParametersField(entries) ==
    LET values == [k \in 1 .. Len(entries) |-> entries[k][2]]
    IN  IF AnyRaised(values) THEN FirstRaised(values)
        ELSE [t |-> "parameters", v |-> entries]

HTTPParameterField(pair) ==
    IF IsRaised(pair[2]) THEN pair[2]
    ELSE [t |-> "parameter", v |-> pair]

RECURSIVE JoinWith(_, _)
JoinWith(sep, texts) ==
    IF Len(texts) = 0 THEN ""
    ELSE IF Len(texts) = 1 THEN texts[1]
    ELSE texts[1] \o sep \o JoinWith(sep, Tail(texts))

\* outcome of evaluating an expression: its text, or the exception raised
Ok(text) == [ok |-> TRUE, text |-> text]

Fail(kind) == [ok |-> FALSE, text |-> kind]

NoOutcome == [ok |-> FALSE, text |-> ""]

\* sep.join([each.serialized for each in ...]): the first failure aborts
JoinOutcomes(sep, outs) ==
    IF \E k \in 1 .. Len(outs) : ~outs[k].ok
    THEN outs[CHOOSE k \in 1 .. Len(outs) :
                 /\ ~outs[k].ok
                 /\ \A j \in 1 .. (k - 1) : outs[j].ok]
    ELSE Ok(JoinWith(sep, [k \in 1 .. Len(outs) |-> outs[k].text]))

\* the serialized property of each class
RECURSIVE Serialized(_)
Serialized(f) ==
    CASE f.t = "raised"     -> Fail(f.v)
      [] f.t = "decimal"    -> Ok(DecimalText(f.v))
      [] f.t = "string"     -> Ok("\"" \o f.v \o "\"")
      [] f.t = "boolean"    -> Ok(IF f.v THEN "?1" ELSE "?0")
      [] f.t = "list"       ->
            JoinOutcomes(",", [k \in 1 .. Len(f.v) |-> Serialized(f.v[k])])
      [] f.t = "parameter"  ->
            \* isinstance(value, HTTPBooleanField) needs the class
            IF IsRaised(HTTPBooleanFieldClass)
            THEN Fail(HTTPBooleanFieldClass.v)
            ELSE IF f.v[2].t = "boolean" /\ f.v[2].v = TRUE
            THEN Ok(f.v[1])
            ELSE LET inner == Serialized(f.v[2])
                 IN  IF inner.ok THEN Ok(f.v[1] \o "=" \o inner.text)
                     ELSE inner
      [] f.t = "parameters" ->
            JoinOutcomes(";", [k \in 1 .. Len(f.v) |->
                                  Serialized(HTTPParameterField(f.v[k]))])

(***************************************************************************)
(* The response sink (FastAPIResponder), used through send_response and   *)
(* ensure_response.  Its class lies outside generate.py; the two calls     *)
(* follow its interface: send_response delivers the response given,        *)
(* ensure_response delivers a failure response unless one was delivered.   *)
(***************************************************************************)
FailureResponse == [status |-> "error", images |-> <<>>, header |-> ""]

JSONResponse(images, server_timing) ==
    [status |-> "ok", images |-> images, header |-> server_timing]

send_response(r, response) ==
    [responded |-> TRUE, received |-> Append(r.received, response)]

\* ensure_response that sends the failure response whatever was sent before
ensure_response_unconditional(r) == send_response(r, FailureResponse)

ensure_response(r) ==
    IF r.responded THEN r ELSE send_response(r, FailureResponse)

NewResponder == [responded |-> FALSE, received |-> <<>>]

(***************************************************************************)
(* External collaborators of the item task and the assembly loop.         *)
(***************************************************************************)
\* TextToImageInferenceOutput(image) and its .image
TextToImageInferenceOutput(image) == [image |-> image]

\* png_from(image): the transport encoding of an image
png_from(image) == <<"png", image>>

(***************************************************************************)
(* GenerateImageProcess (lines 45-76).                                    *)
(***************************************************************************)
NewProcess == [st |-> "none", output |-> None, fault |-> FALSE]

\* index: the index from_batch was given, once the request is built
NewExec ==
    [submits |-> 0, done |-> FALSE, response_image |-> None, index |-> Unset]

\* the item tasks run only while the orchestrator, which shares their
\* fiber, is suspended in the gather or has ended
OrchestratorYielded == pc \in {"join", "done"}

\* lines 68-70: build the exec request, submit it, suspend on exec.done
ItemSubmit(i) ==
    /\ OrchestratorYielded
    /\ proc[i].st = "launched"
    /\ proc' = [proc EXCEPT ![i].st = "awaiting"]
    /\ exec' = [exec EXCEPT ![i].index = i, ![i].submits = @ + 1]
    /\ UNCHANGED <<joined, num_output_images, pc, gen_processes, png_images,
                   responder, calls, exc, raised, now, t0, t1, header,
                   sf_in, sf_out>>

\* from_batch or batcher.submit raises: the process ends, output stays None
ItemFault(i) ==
    /\ OrchestratorYielded
    /\ proc[i].st = "launched"
    /\ proc' = [proc EXCEPT ![i].st = "terminated", ![i].fault = TRUE]
    /\ UNCHANGED <<joined, num_output_images, pc, gen_processes, exec, png_images,
                   responder, calls, exc, raised, now, t0, t1, header,
                   sf_in, sf_out>>

\* the batcher fills response_image (an image, or nothing) and fires done
BatcherComplete(i) ==
    /\ exec[i].submits > 0
    /\ ~exec[i].done
    /\ \E image \in {None} \cup {Some(x) : x \in Images} :
          exec' = [exec EXCEPT ![i].done = TRUE, ![i].response_image = image]
    /\ UNCHANGED <<joined, num_output_images, pc, gen_processes, proc, png_images,
                   responder, calls, exc, raised, now, t0, t1, header,
                   sf_in, sf_out>>

\* lines 72-76, the value assigned to self.output
OutputFrom(response_image) ==
    IF response_image # None
    THEN Some(TextToImageInferenceOutput(response_image[1]))
    ELSE None

\* ItemWake with an empty slot treated as "not ready yet": the task keeps
\* waiting instead of ending
ItemWakeRetry(i) ==
    /\ OrchestratorYielded
    /\ proc[i].st = "awaiting"
    /\ exec[i].done
    /\ proc' = IF exec[i].response_image = None THEN proc
               ELSE [proc EXCEPT ![i].st = "terminated",
                                 ![i].output = OutputFrom(exec[i].response_image)]
    /\ UNCHANGED <<joined, num_output_images, pc, gen_processes, exec,
                   png_images, responder, calls, exc, raised, now, t0, t1,
                   header, sf_in, sf_out>>

\* ItemWake that also stores its output in the slot of index 0
ItemWakeWrongSlot(i) ==
    /\ OrchestratorYielded
    /\ proc[i].st = "awaiting"
    /\ exec[i].done
    /\ proc' = [proc EXCEPT ![0].output = OutputFrom(exec[i].response_image),
                            ![i].st = "terminated",
                            ![i].output = OutputFrom(exec[i].response_image)]
    /\ UNCHANGED <<joined, num_output_images, pc, gen_processes, exec,
                   png_images, responder, calls, exc, raised, now, t0, t1,
                   header, sf_in, sf_out>>

\* lines 70-76: wake from exec.done, set self.output, end
ItemWake(i) ==
    /\ OrchestratorYielded
    /\ proc[i].st = "awaiting"
    /\ exec[i].done
    /\ proc' = [proc EXCEPT ![i].st = "terminated",
                            ![i].output = OutputFrom(exec[i].response_image)]
    /\ UNCHANGED <<joined, num_output_images, pc, gen_processes, exec, png_images,
                   responder, calls, exc, raised, now, t0, t1, header,
                   sf_in, sf_out>>

(***************************************************************************)
(* ClientGenerateBatchProcess.run (lines 202-276).                        *)
(***************************************************************************)
\* lines 203-204
OrchStart ==
    /\ pc = "start"
    /\ t0' = now
    /\ pc' = "launch"
    /\ UNCHANGED <<joined, num_output_images, gen_processes, proc, exec, png_images,
                   responder, calls, exc, raised, now, t1, header,
                   sf_in, sf_out>>

\* Launch with every process given index 0
LaunchSameIndex ==
    /\ pc = "launch"
    /\ Len(gen_processes) < num_output_images
    /\ gen_processes' = Append(gen_processes, 0)
    /\ proc' = [proc EXCEPT ![0].st = "launched"]
    /\ UNCHANGED <<joined, num_output_images, pc, exec, png_images, responder,
                   calls, exc, raised, now, t0, t1, header, sf_in, sf_out>>

\* lines 209-212, one iteration of the launch loop
Launch ==
    /\ pc = "launch"
    /\ Len(gen_processes) < num_output_images
    /\ LET index == Len(gen_processes)
       IN  /\ gen_processes' = Append(gen_processes, index)
           /\ proc' = [proc EXCEPT ![index].st = "launched"]
    /\ UNCHANGED <<joined, num_output_images, pc, exec, png_images, responder, calls,
                   exc, raised, now, t0, t1, header, sf_in, sf_out>>

\* LaunchFault with the launch loop placed before the try statement: the
\* exception leaves run without passing the finally clause
LaunchFaultOutsideTry ==
    /\ pc = "launch"
    /\ Len(gen_processes) < num_output_images
    /\ LET index == Len(gen_processes)
       IN  /\ gen_processes' = Append(gen_processes, index)
           /\ proc' = [proc EXCEPT ![index].st = "created"]
           /\ exc' = [kind |-> "LaunchFault", index |-> index]
           /\ raised' = [kind |-> "LaunchFault", index |-> index]
    /\ pc' = "done"
    /\ UNCHANGED <<joined, num_output_images, exec, png_images, responder,
                   calls, now, t0, t1, header, sf_in, sf_out>>

\* lines 209-212, an iteration in which launch() raises: the try block is
\* left for the finally clause
LaunchFault ==
    /\ pc = "launch"
    /\ Len(gen_processes) < num_output_images
    /\ LET index == Len(gen_processes)
       IN  /\ gen_processes' = Append(gen_processes, index)
           /\ proc' = [proc EXCEPT ![index].st = "created"]
           /\ exc' = [kind |-> "LaunchFault", index |-> index]
    /\ pc' = "finally"
    /\ UNCHANGED <<joined, num_output_images, exec, png_images, responder, calls,
                   raised, now, t0, t1, header, sf_in, sf_out>>

\* line 214: the launch loop is over, run suspends in asyncio.gather
OrchGather ==
    /\ pc = "launch"
    /\ Len(gen_processes) = num_output_images
    /\ pc' = "join"
    /\ UNCHANGED <<joined, num_output_images, gen_processes, proc, exec, png_images,
                   responder, calls, exc, raised, now, t0, t1, header,
                   sf_in, sf_out>>

\* GatherResolved with a wait for the first process to end only
GatherFirstCompleted ==
    \E k \in 1 .. Len(gen_processes) : proc[gen_processes[k]].st = "terminated"

\* line 214: gather(*gen_processes) resolves when every process it was
\* given has ended
GatherResolved ==
    \A k \in 1 .. Len(gen_processes) : proc[gen_processes[k]].st = "terminated"

\* OrchJoin with a wait that gives up (a timeout on the gather)
OrchJoinTimeout ==
    /\ pc = "join"
    /\ pc' = "assemble"
    /\ joined' = TRUE
    /\ UNCHANGED <<num_output_images, gen_processes, proc, exec, png_images,
                   responder, calls, exc, raised, now, t0, t1, header,
                   sf_in, sf_out>>

\* line 214: run resumes
OrchJoin ==
    /\ pc = "join"
    /\ GatherResolved
    /\ pc' = "assemble"
    /\ joined' = TRUE
    /\ UNCHANGED <<num_output_images, gen_processes, proc, exec, png_images,
                   responder, calls, exc, raised, now, t0, t1, header,
                   sf_in, sf_out>>

\* line 222: the processes the assembly loop rejects
MissingOutputs ==
    {k \in 1 .. Len(gen_processes) : proc[gen_processes[k]].output = None}

\* lines 227-228 for the first n processes
PngPrefix(n) ==
    [k \in 1 .. n |-> png_from(proc[gen_processes[k]].output[1].image)]

\* OrchAssemble with a process without output skipped instead of rejected
OrchAssemblePartial ==
    /\ pc = "assemble"
    /\ LET present == SelectSeq(gen_processes,
                                LAMBDA i : proc[i].output # None)
       IN  png_images' = [k \in 1 .. Len(present) |->
                             png_from(proc[present[k]].output[1].image)]
    /\ pc' = "respond"
    /\ UNCHANGED <<joined, num_output_images, gen_processes, proc, exec,
                   responder, calls, exc, raised, now, t0, t1, header,
                   sf_in, sf_out>>

\* OrchAssemble that reports the last process without output
OrchAssembleLastMissing ==
    /\ pc = "assemble"
    /\ IF MissingOutputs # {}
       THEN LET last == CHOOSE k \in MissingOutputs :
                            \A j \in MissingOutputs : k >= j
            IN  /\ png_images' = <<>>
                /\ exc' = [kind |-> "MissingOutput", index |-> last - 1]
                /\ pc' = "finally"
       ELSE /\ png_images' = PngPrefix(Len(gen_processes))
            /\ exc' = exc
            /\ pc' = "respond"
    /\ UNCHANGED <<joined, num_output_images, gen_processes, proc, exec,
                   responder, calls, raised, now, t0, t1, header,
                   sf_in, sf_out>>

\* lines 219-228: the assembly loop
OrchAssemble ==
    /\ pc = "assemble"
    /\ IF MissingOutputs # {}
       THEN LET first == CHOOSE k \in MissingOutputs :
                             \A j \in MissingOutputs : k <= j
            IN  /\ png_images' = PngPrefix(first - 1)
                /\ exc' = [kind |-> "MissingOutput", index |-> first - 1]
                /\ pc' = "finally"
       ELSE /\ png_images' = PngPrefix(Len(gen_processes))
            /\ exc' = exc
            /\ pc' = "respond"
    /\ UNCHANGED <<joined, num_output_images, gen_processes, proc, exec, responder,
                   calls, raised, now, t0, t1, header, sf_in, sf_out>>

\* line 227: png_from raises at some process that has an output
PngFault ==
    /\ pc = "assemble"
    /\ \E k \in 1 .. Len(gen_processes) :
          /\ \A j \in 1 .. k : j \notin MissingOutputs
          /\ png_images' = PngPrefix(k - 1)
          /\ exc' = [kind |-> "PngFault", index |-> k - 1]
    /\ pc' = "finally"
    /\ UNCHANGED <<joined, num_output_images, gen_processes, proc, exec, responder,
                   calls, raised, now, t0, t1, header, sf_in, sf_out>>

\* lines 232-238: milliseconds between the two datetime.now() readings,
\* as a Decimal in halves
DurationInHalves(start, end) == 2 * (end - start)

\* lines 240-262
ServerTimingMetrics(duration) ==
    HTTPListField(<<
        HTTPParametersField(<<
            <<"pre", HTTPBooleanField(TRUE)>>,
            <<"desc", HTTPStringField("Batch Pre-processing")>>,
            <<"dur", HTTPDecimalField(0)>> >>),
        HTTPParametersField(<<
            <<"infer", HTTPBooleanField(TRUE)>>,
            <<"desc", HTTPStringField("Batch Inference")>>,
            <<"dur", HTTPDecimalField(duration)>> >>),
        HTTPParametersField(<<
            <<"post", HTTPBooleanField(TRUE)>>,
            <<"desc", HTTPStringField("Batch Post-processing")>>,
            <<"dur", HTTPDecimalField(duration)>> >>) >>)

\* lines 230-274: take the end time, build the header, send the response
OrchRespond ==
    /\ pc = "respond"
    /\ t1' = now
    /\ header' = Serialized(ServerTimingMetrics(DurationInHalves(t0, now)))
    /\ IF header'.ok
       THEN /\ responder' = send_response(responder,
                                          JSONResponse(png_images, header'.text))
            /\ calls' = Append(calls, <<"send_response",
                                         JSONResponse(png_images, header'.text)>>)
            /\ exc' = exc
       ELSE /\ exc' = [kind |-> header'.text, index |-> 0]
            /\ UNCHANGED <<responder, calls>>
    /\ pc' = "finally"
    /\ UNCHANGED <<joined, num_output_images, gen_processes, proc, exec, png_images,
                   raised, now, t0, sf_in, sf_out>>

\* OrchFinally without the call of ensure_response
OrchFinallyNoEnsure ==
    /\ pc = "finally"
    /\ raised' = exc
    /\ pc' = "done"
    /\ UNCHANGED <<joined, num_output_images, gen_processes, proc, exec,
                   png_images, responder, calls, exc, now, t0, t1, header,
                   sf_in, sf_out>>

\* OrchFinally that ends run normally (a return inside the finally clause)
OrchFinallySwallow ==
    /\ pc = "finally"
    /\ responder' = ensure_response(responder)
    /\ calls' = Append(calls, <<"ensure_response">>)
    /\ raised' = NoExc
    /\ pc' = "done"
    /\ UNCHANGED <<joined, num_output_images, gen_processes, proc, exec,
                   png_images, exc, now, t0, t1, header, sf_in, sf_out>>

\* lines 275-276: the finally clause, then run ends and a pending
\* exception leaves it
OrchFinally ==
    /\ pc = "finally"
    /\ responder' = ensure_response(responder)
    /\ calls' = Append(calls, <<"ensure_response">>)
    /\ raised' = exc
    /\ pc' = "done"
    /\ UNCHANGED <<joined, num_output_images, gen_processes, proc, exec, png_images,
                   exc, now, t0, t1, header, sf_in, sf_out>>

\* the wall clock advances
Tick ==
    /\ now < MaxClock
    /\ now' = now + 1
    /\ UNCHANGED <<joined, num_output_images, pc, gen_processes, proc, exec,
                   png_images, responder, calls, exc, raised, t0, t1, header,
                   sf_in, sf_out>>

(***************************************************************************)
(* The serializer and the responder driven directly, one call at a time.  *)
(***************************************************************************)
NoField == [t |-> "none", v |-> 0]

\* the structured-field values asked for: a variant tag and its payload
Booleans == {[t |-> "boolean", v |-> b] : b \in BOOLEAN}

Decimals == {[t |-> "decimal", v |-> h] : h \in 0 .. MaxHalves}

Texts == {[t |-> "string", v |-> s] : s \in {"Batch Pre-processing", "x"}}

Atoms == Booleans \cup Decimals \cup Texts

Keys == {"pre", "desc", "dur"}

Parameters == {[t |-> "parameter", v |-> <<k, a>>] : k \in Keys, a \in Atoms}

\* entries with distinct keys, in every order of insertion
EntryLists ==
    {<<e.v>> : e \in Parameters}
    \cup {<<pair[1].v, pair[2].v>> :
             pair \in {q \in Parameters \X Parameters : q[1].v[1] # q[2].v[1]}}
    \cup {<<<<"pre", a1>>, <<"desc", a2>>, <<"dur", a3>> >> :
             a1 \in Booleans, a2 \in Texts, a3 \in Decimals}

ParameterSets == {[t |-> "parameters", v |-> es] : es \in EntryLists}

PreSets == {p \in ParameterSets : Len(p.v) = 3}

Lists ==
    {[t |-> "list", v |-> <<>>]}
    \cup {[t |-> "list", v |-> <<a>>] : a \in Atoms}
    \cup {[t |-> "list", v |-> <<a1, a2>>] : a1 \in Atoms, a2 \in Atoms}
    \cup {[t |-> "list", v |-> <<p1, p2>>] : p1 \in PreSets, p2 \in PreSets}

Fields == Atoms \cup Parameters \cup ParameterSets \cup Lists

\* the expression of the module that builds the value asked for
RECURSIVE Construct(_)
Construct(d) ==
    CASE d.t = "boolean"    -> HTTPBooleanField(d.v)
      [] d.t = "decimal"    -> HTTPDecimalField(d.v)
      [] d.t = "string"     -> HTTPStringField(d.v)
      [] d.t = "parameter"  ->
            HTTPParameterField(<<d.v[1], Construct(d.v[2])>>)
      [] d.t = "parameters" ->
            HTTPParametersField([k \in 1 .. Len(d.v) |->
                                    <<d.v[k][1], Construct(d.v[k][2])>>])
      [] d.t = "list"       ->
            HTTPListField([k \in 1 .. Len(d.v) |-> Construct(d.v[k])])

\* evaluate <value>.serialized for a value drawn from Fields
Serialize ==
    /\ sf_in = NoField
    /\ \E d \in Fields :
          /\ sf_in' = d
          /\ sf_out' = Serialized(Construct(d))
    /\ UNCHANGED <<ovars, responder, calls>>

RECURSIVE PngLists(_)
PngLists(n) ==
    IF n = 0 THEN {<<>>}
    ELSE PngLists(n - 1)
         \cup {Append(l, png_from(x)) : l \in PngLists(n - 1), x \in Images}

Payloads == {JSONResponse(l, "") : l \in PngLists(MaxN) \ {<<>>}}

\* responder.send_response(payload) on a responder that has not responded
DirectSend ==
    /\ Len(calls) < MaxCalls
    /\ ~responder.responded
    /\ \E payload \in Payloads :
          /\ responder' = send_response(responder, payload)
          /\ calls' = Append(calls, <<"send_response", payload>>)
    /\ UNCHANGED <<ovars, sf_in, sf_out>>

\* responder.ensure_response()
DirectEnsure ==
    /\ Len(calls) < MaxCalls
    /\ responder' = ensure_response(responder)
    /\ calls' = Append(calls, <<"ensure_response">>)
    /\ UNCHANGED <<ovars, sf_in, sf_out>>

Init ==
    /\ num_output_images \in 1 .. MaxN
    /\ pc = "start"
    /\ gen_processes = <<>>
    /\ proc = [i \in Indices |-> NewProcess]
    /\ exec = [i \in Indices |-> NewExec]
    /\ png_images = <<>>
    /\ responder = NewResponder
    /\ calls = <<>>
    /\ exc = NoExc
    /\ raised = NoExc
    /\ now = 0
    /\ t0 = Unset
    /\ t1 = Unset
    /\ header = NoOutcome
    /\ joined = FALSE
    /\ sf_in = NoField
    /\ sf_out = NoOutcome

Next ==
    \/ OrchStart
    \/ Launch
    \/ LaunchFault
    \/ OrchGather
    \/ OrchJoin
    \/ OrchAssemble
    \/ PngFault
    \/ OrchRespond
    \/ OrchFinally
    \/ \E i \in Indices : ItemSubmit(i)
    \/ \E i \in Indices : ItemFault(i)
    \/ \E i \in Indices : BatcherComplete(i)
    \/ \E i \in Indices : ItemWake(i)
    \/ Tick

Spec == Init /\ [][Next]_vars

\* the batcher completes every submitted request and the executor runs
\* every task that can take a step; faults and clock readings are free
LiveSpec ==
    /\ Init
    /\ [][Next]_vars
    /\ WF_vars(OrchStart)
    /\ WF_vars(Launch)
    /\ WF_vars(OrchGather)
    /\ WF_vars(OrchJoin)
    /\ WF_vars(OrchAssemble)
    /\ WF_vars(OrchRespond)
    /\ WF_vars(OrchFinally)
    /\ \A i \in Indices : WF_vars(ItemSubmit(i))
    /\ \A i \in Indices : WF_vars(BatcherComplete(i))
    /\ \A i \in Indices : WF_vars(ItemWake(i))

UnitNext ==
    \/ Serialize
    \/ DirectSend
    \/ DirectEnsure

UnitInit == Init /\ num_output_images = 1

UnitSpec == UnitInit /\ [][UnitNext]_vars

(***************************************************************************)
(* Properties.                                                             *)
(***************************************************************************)
Requested == 0 .. (num_output_images - 1)

Launched(i) == proc[i].st \in {"launched", "awaiting", "terminated"}

Terminal(i) == proc[i].st = "terminated"

AllLaunched == \A i \in Requested : Launched(i)

AllTerminal == \A i \in Requested : Terminal(i)

AllSucceeded == \A i \in Requested : Terminal(i) /\ proc[i].output # None

SomeOutputMissing == \E i \in Requested : Terminal(i) /\ proc[i].output = None

Received == responder.received

EnsureCalled == \E k \in 1 .. Len(calls) : calls[k][1] = "ensure_response"

SuccessSent == \E k \in 1 .. Len(Received) : Received[k].status = "ok"

\* C1: the responder never holds two responses, and once run has ended it
\* holds exactly one, whatever path run took (join and assembly, an item
\* without output, a fault while launching, assembling or building).
ExactlyOneResponse ==
    /\ Len(Received) <= 1
    /\ pc = "done" => Len(Received) = 1

\* C1 witness: run ended after a join of several items, one without output
ExactlyOneResponseWitness ==
    /\ pc = "done"
    /\ num_output_images >= 2
    /\ joined
    /\ raised.kind = "MissingOutput"
    /\ Len(Received) = 1

\* C2 as stated: no assembly and no call on the responder while a launched
\* item task has not ended.
JoinCompleteness ==
    (pc \in {"assemble", "respond"} \/ calls # <<>>)
        => \A i \in Requested : Launched(i) => Terminal(i)

\* C2 amended: when the launch loop launched all N item tasks, there is no
\* assembly and no call on the responder while one of them has not ended.
JoinCompletenessAfterLaunch ==
    (AllLaunched /\ (pc \in {"assemble", "respond"} \/ calls # <<>>))
        => AllTerminal

\* C2 witness: a response was delivered after a join in which one item task
\* ended by a fault and a sibling ended with an output
JoinCompletenessWitness ==
    /\ pc = "done"
    /\ AllLaunched
    /\ Received # <<>>
    /\ \E i \in Requested : proc[i].fault
    /\ \E j \in Requested : proc[j].output # None

\* C3: when all N item tasks succeeded and nothing failed while encoding,
\* run ends with the success response whose k-th image is the encoding of
\* the output of item k.
OrderedImagesOnSuccess ==
    (pc = "done" /\ AllSucceeded /\ raised.kind # "PngFault")
        => /\ Len(Received) = 1
           /\ Received[1].status = "ok"
           /\ Received[1].images =
                 [k \in 1 .. num_output_images |->
                     png_from(proc[k - 1].output[1].image)]

\* C4: once an item task has ended with an empty slot, run never reaches
\* the building of the success response, no success response is in the
\* sink, and run ends with the failure response alone; a success response
\* is in the sink only when all N slots are filled.
NoSuccessWhenOutputMissing ==
    /\ SomeOutputMissing
          => /\ pc # "respond"
             /\ t1 = Unset
             /\ ~SuccessSent
             /\ pc = "done" => Received = <<FailureResponse>>
    /\ SuccessSent => AllSucceeded

\* C4 witness: run ended after the join with the slot of some item empty
\* and the slot of another filled
NoSuccessWhenOutputMissingWitness ==
    /\ pc = "done"
    /\ joined
    /\ SomeOutputMissing
    /\ \E j \in Requested : proc[j].output # None
    /\ Received = <<FailureResponse>>

\* C5: if the batcher completes every submitted request and the executor
\* is fair, run eventually ends with a response delivered.
EventuallyResponds == <>(pc = "done" /\ Len(Received) = 1)

\* C5 witness: run ended after every item task was completed by the batcher
EventuallyRespondsWitness ==
    /\ pc = "done"
    /\ num_output_images >= 2
    /\ \A i \in Requested : Terminal(i) /\ exec[i].done
    /\ Len(Received) = 1

\* C6 as stated: ensure_response runs on every path, and never before the
\* join has resolved.
FinalizationAfterJoin ==
    /\ pc = "done" => EnsureCalled
    /\ EnsureCalled => joined

\* C6 amended: ensure_response runs on every path; it runs after the join
\* has resolved, except when a fault is raised in the launch loop, and then
\* it runs before the join is reached.
FinalizationOnEveryPath ==
    /\ pc = "done" => EnsureCalled
    /\ (EnsureCalled /\ raised.kind # "LaunchFault") => joined
    /\ (EnsureCalled /\ raised.kind = "LaunchFault") => ~joined

\* C6 witness: run ended with ensure_response called after the join of
\* all N item tasks
FinalizationOnEveryPathWitness ==
    /\ pc = "done"
    /\ EnsureCalled
    /\ joined
    /\ AllTerminal

\* the rendering the serialization rules give a Boolean, Decimal or Text
AtomText(a) ==
    CASE a.t = "boolean" -> IF a.v THEN "?1" ELSE "?0"
      [] a.t = "decimal" -> DecimalText(a.v)
      [] a.t = "string"  -> "\"" \o a.v \o "\""

\* the rendering the rules give Parameter(key, value)
ParameterText(pair) ==
    IF pair[2].t = "boolean" /\ pair[2].v = TRUE THEN pair[1]
    ELSE pair[1] \o "=" \o AtomText(pair[2])

\* C7: once a response was sent, a later ensure_response sends nothing and
\* leaves the first response in the sink; ensure_response called twice
\* leaves the one failure response of the first call.
IdempotentFinalization ==
    /\ Len(Received) <= 1
    /\ \A k \in 1 .. Len(calls) :
          calls[k][1] = "send_response" => Received = <<calls[k][2]>>
    /\ (calls # <<>> /\ calls[1][1] = "ensure_response")
          => Received = <<FailureResponse>>

\* C7 witness: send_response was followed by two calls of ensure_response
IdempotentFinalizationWitness ==
    /\ Len(calls) = 3
    /\ calls[1][1] = "send_response"
    /\ calls[2][1] = "ensure_response"
    /\ calls[3][1] = "ensure_response"
    /\ Received = <<calls[1][2]>>

\* C8: Parameter(key, value) renders as the bare key exactly when value is
\* Boolean true, and as key=<rendering of value> otherwise.
ParameterRendering ==
    sf_in.t = "parameter" => sf_out = Ok(ParameterText(sf_in.v))

\* C9: a ParameterSet renders as its entries' Parameter renderings in
\* insertion order joined with ';', and the set (pre, desc="Batch
\* Pre-processing", dur=Decimal(0)) renders as
\* pre;desc="Batch Pre-processing";dur=0.
ParameterSetRendering ==
    sf_in.t = "parameters"
        => /\ sf_out = Ok(JoinWith(";", [k \in 1 .. Len(sf_in.v) |->
                                            ParameterText(sf_in.v[k])]))
           /\ sf_in.v = << <<"pre", [t |-> "boolean", v |-> TRUE]>>,
                           <<"desc", [t |-> "string",
                                      v |-> "Batch Pre-processing"]>>,
                           <<"dur", [t |-> "decimal", v |-> 0]>> >>
                 => sf_out = Ok("pre;desc=\"Batch Pre-processing\";dur=0")

\* the Server-Timing value the header rule gives for a duration
ServerTimingText(duration) ==
    "pre;desc=\"Batch Pre-processing\";dur=" \o DecimalText(0)
    \o ",infer;desc=\"Batch Inference\";dur=" \o DecimalText(duration)
    \o ",post;desc=\"Batch Post-processing\";dur=" \o DecimalText(duration)

\* C10: once run has built the Server-Timing value of a batch whose items
\* all succeeded, the value is the three groups pre, infer, post joined by
\* ',', each group tag;desc="...";dur=<milliseconds>, and run ends with a
\* success response that carries it.
ServerTimingHeaderFormat ==
    /\ t1 # Unset => header = Ok(ServerTimingText(DurationInHalves(t0, t1)))
    /\ (pc = "done" /\ t1 # Unset)
          => /\ Len(Received) = 1
             /\ Received[1].status = "ok"
             /\ Received[1].header = header.text

\* C11: the launch loop launches the indices 0, 1, 2, ... in order, none
\* repeated or skipped and none beyond N-1; when run waits at the join all N
\* are launched; an item task submits one exec request, built with its own
\* index, before it suspends on exec.done, and never a second one.
LaunchesOnePerIndex ==
    /\ Len(gen_processes) <= num_output_images
    /\ \A k \in 1 .. Len(gen_processes) : gen_processes[k] = k - 1
    /\ \A i \in Indices : Launched(i) => i < Len(gen_processes)
    /\ (pc = "join" \/ joined)
          => Len(gen_processes) = num_output_images /\ AllLaunched
    /\ \A i \in Indices :
          /\ exec[i].submits <= 1
          /\ proc[i].st = "awaiting" => exec[i].submits = 1
          /\ exec[i].submits = 1 => exec[i].index = i /\ Launched(i)
          /\ (proc[i].st = "terminated" /\ ~proc[i].fault)
                => exec[i].submits = 1

\* C11 witness: run waits at the join of three item tasks, each of which
\* has submitted its request
LaunchesOnePerIndexWitness ==
    /\ pc = "join"
    /\ num_output_images >= 3
    /\ \A i \in Requested : proc[i].st = "awaiting" /\ exec[i].index = i

\* C12: an error inside run is not swallowed: run ends with the error it
\* was unwinding with, no error leaves run before ensure_response was
\* called, and run does not end normally when an output was missing at
\* assembly, when building the response failed, or when the failure
\* response had to be delivered.
ErrorLeavesRunAfterFinalization ==
    /\ pc = "done" => raised = exc
    /\ raised # NoExc => pc = "done" /\ EnsureCalled
    /\ exc # NoExc => pc \in {"finally", "done"}
    /\ (pc = "done" /\ joined /\ SomeOutputMissing) => raised # NoExc
    /\ (pc = "done" /\ t1 # Unset /\ ~header.ok) => raised.kind = header.text
    /\ (pc = "done" /\ Received = <<FailureResponse>>) => raised # NoExc

\* C12 witness: run ended with the error of a missing output, after
\* ensure_response delivered the failure response
ErrorLeavesRunAfterFinalizationWitness ==
    /\ pc = "done"
    /\ raised.kind = "MissingOutput"
    /\ EnsureCalled
    /\ Received = <<FailureResponse>>

\* C13: the error of a missing output names an item whose slot is empty,
\* and no item of a smaller index has an empty slot; after the join an
\* empty slot stops assembly at or before its index.
MissingOutputNamesSmallestIndex ==
    /\ exc.kind = "MissingOutput"
          => /\ exc.index \in Requested
             /\ Terminal(exc.index)
             /\ proc[exc.index].output = None
             /\ \A j \in Requested : j < exc.index => proc[j].output # None
    /\ (pc \in {"finally", "done"} /\ joined /\ SomeOutputMissing)
          => /\ exc.kind \in {"MissingOutput", "PngFault"}
             /\ \A j \in Requested : j < exc.index => proc[j].output # None

\* C13 witness: items 1 and 2 ended with empty slots, item 0 with an output,
\* and the error names index 1
MissingOutputNamesSmallestIndexWitness ==
    /\ pc = "done"
    /\ num_output_images >= 3
    /\ proc[0].output # None
    /\ proc[1].output = None /\ Terminal(1) /\ ~proc[1].fault
    /\ proc[2].output = None /\ Terminal(2)
    /\ raised = [kind |-> "MissingOutput", index |-> 1]

\* a step of item task i: its process changes after it was launched
ItemStep(i) == proc[i].st \in {"launched", "awaiting"} /\ proc'[i] # proc[i]

\* C14: the slot of item i is empty until exec.done of item i has fired; it
\* changes only in the step in which item task i wakes, at most once; a
\* step of an item task leaves every other process, the request, the
\* responder and run where they were; run reads the slots (the assembly
\* loop) only after the gather has resolved with every task ended.
ItemWritesOnlyItsSlot ==
    /\ [](\A i \in Indices : proc[i].output # None => exec[i].done)
    /\ [](pc = "assemble" => joined /\ AllTerminal)
    /\ [](png_images # <<>> => joined)
    /\ [][\A i \in Indices :
            /\ proc'[i].output # proc[i].output
                  => /\ proc[i].output = None
                     /\ proc[i].st = "awaiting"
                     /\ proc'[i].st = "terminated"
            /\ proc[i].st = "terminated" => proc'[i] = proc[i]
            /\ ItemStep(i)
                  => /\ \A j \in Indices \ {i} : proc'[j] = proc[j]
                     /\ num_output_images' = num_output_images
                     /\ responder' = responder
                     /\ calls' = calls
                     /\ pc' = pc
                     /\ png_images' = png_images]_vars

\* C14 witness: one item task has written its slot while the completion
\* signal of a sibling has fired and the sibling has not woken yet
ItemWritesOnlyItsSlotWitness ==
    \E i \in Requested : \E j \in Requested :
        /\ Terminal(i) /\ proc[i].output # None
        /\ proc[j].st = "awaiting" /\ exec[j].done
        /\ exec[j].response_image # None /\ proc[j].output = None
        /\ pc = "join"

PostDurationEqualsInferDuration ==
    (pc = "done" /\ t1 # Unset)
        => LET metrics == ServerTimingMetrics(DurationInHalves(t0, t1))
           IN  /\ metrics.t = "list"
               /\ metrics.v[1].v[3] = <<"dur", HTTPDecimalField(0)>>
               /\ metrics.v[2].v[3] =
                     <<"dur", HTTPDecimalField(DurationInHalves(t0, t1))>>
               /\ metrics.v[3].v[3] = metrics.v[2].v[3]
               /\ SuccessSent

=============================================================================
